---- MODULE Spec2Model ----
(***************************************************************************)
(* Asylen Ventures API (src/main.py, src/schemas.py): the request handlers *)
(* over an optional document store.  One action per endpoint; every        *)
(* handler is a pure operator from (store, request, store faults) to       *)
(* (response, store, storage calls made).                                  *)
(*                                                                         *)
(* Values are tagged with their run-time type: [t |-> type, v |-> value].  *)
(* int values carry the integer, float values carry tenths (4.5 is 45).    *)
(* Strings that are matched character by character (city, error texts)     *)
(* are tuples of one-character strings.  Optional[X] is a sequence of      *)
(* length 0 (None) or 1.  The status strings of /test are written without  *)
(* their leading pictographs.                                              *)
(***************************************************************************)
EXTENDS Integers, Sequences, FiniteSets, TLC

VARIABLES db, env, property, inquiry, others, seedRounds, req, resp, calls

vars == <<db, env, property, inquiry, others, seedRounds, req, resp, calls>>

\* ------------------------------------------------------------------ bounds

\* listing requests per behaviour that seed at least one record
MaxSeedRounds == 1
\* inquiry records stored per behaviour
MaxInquiries == 1
\* records of the large pre-existing collection beyond the fetch limit
MaxBulk == 1
\* characters of an error text beyond the /test truncation
MaxErrExtra == 1

\* ------------------------------------------------------- program constants

\* get_documents("property", query, limit=50)
FetchLimit == 50
\* collections[:10]
CollCut == 10
\* str(e)[:80]
ErrCut == 80

\* ------------------------------------------------------------------ values

Str(s) == [t |-> "str", v |-> s]
IntV(n) == [t |-> "int", v |-> n]
FloatV(tenths) == [t |-> "float", v |-> tenths]
BoolV(b) == [t |-> "bool", v |-> b]
ListV(xs) == [t |-> "list", v |-> xs]
NoneV == [t |-> "none", v |-> 0]
\* a keyword argument that is not passed at all
Absent == [t |-> "absent", v |-> 0]

Min(a, b) == IF a < b THEN a ELSE b

Take(s, n) == SubSeq(s, 1, Min(Len(s), n))

\* ------------------------------------------------------- schemas.Property

PropertyFields ==
    {"title", "description", "address", "city", "state", "country", "price",
     "bedrooms", "bathrooms", "area_sqft", "images", "featured", "status"}

FieldType(f) ==
    CASE f \in {"title", "description", "address", "city", "state", "country", "status"} -> "str"
      [] f \in {"price", "bathrooms"} -> "float"
      [] f \in {"bedrooms", "area_sqft"} -> "int"
      [] f = "images" -> "list"
      [] f = "featured" -> "bool"

\* the declared default of a field, <<>> for a required field
FieldDefault(f) ==
    CASE f = "country" -> <<Str("India")>>
      [] f = "images" -> <<ListV(<<>>)>>
      [] f = "featured" -> <<BoolV(FALSE)>>
      [] f = "status" -> <<Str("For Sale")>>
      [] OTHER -> <<>>

\* Field validation of the stored value kinds (str, int, float, bool, list
\* of str, None; strings in numeric or boolean fields are non-numeric text):
\* the validated value, or <<>> when validation fails.
ValidateField(type, x) ==
    CASE type = "str" -> IF x.t = "str" THEN <<x>> ELSE <<>>
      [] type = "float" ->
            IF x.t = "float" THEN <<x>>
            ELSE IF x.t = "int" THEN <<FloatV(x.v * 10)>>
            ELSE <<>>
      [] type = "int" ->
            IF x.t = "int" THEN <<x>>
            ELSE IF x.t = "float" /\ x.v % 10 = 0 THEN <<IntV(x.v \div 10)>>
            ELSE <<>>
      [] type = "bool" ->
            IF x.t = "bool" THEN <<x>>
            ELSE IF x.t = "int" /\ x.v \in {0, 1} THEN <<BoolV(x.v = 1)>>
            ELSE <<>>
      [] type = "list" -> IF x.t = "list" THEN <<x>> ELSE <<>>

\* one field of Property(**kwargs): default when not passed, else validated
FieldOf(kwargs, f) ==
    IF kwargs[f].t = "absent" THEN FieldDefault(f)
    ELSE ValidateField(FieldType(f), kwargs[f])

\* Property(**kwargs): <<the model>> or <<>> when validation raises
Property(kwargs) ==
    IF \A f \in PropertyFields : FieldOf(kwargs, f) # <<>>
    THEN <<[f \in PropertyFields |-> FieldOf(kwargs, f)[1]]>>
    ELSE <<>>

\* ------------------------------------------------------- schemas.Inquiry

Inquiry(name, email, phone, message, property_id) ==
    [name |-> name, email |-> email, phone |-> phone, message |-> message,
     property_id |-> property_id]

\* ------------------------------------------------- main._demo_properties

Srinagar == <<"S", "r", "i", "n", "a", "g", "a", "r">>
Gulmarg == <<"G", "u", "l", "m", "a", "r", "g">>
Pahalgam == <<"P", "a", "h", "a", "l", "g", "a", "m">>

\* the keyword arguments of one Property(...) call of _demo_properties;
\* country is not passed
DemoKwargs(title, description, address, city, price, bedrooms, bathrooms, area_sqft, images, featured) ==
    [f \in PropertyFields |->
        CASE f = "title" -> Str(title)
          [] f = "description" -> Str(description)
          [] f = "address" -> Str(address)
          [] f = "city" -> Str(city)
          [] f = "state" -> Str("Jammu & Kashmir")
          [] f = "country" -> Absent
          [] f = "price" -> IntV(price)
          [] f = "bedrooms" -> IntV(bedrooms)
          [] f = "bathrooms" -> FloatV(bathrooms)
          [] f = "area_sqft" -> IntV(area_sqft)
          [] f = "images" -> ListV(images)
          [] f = "featured" -> BoolV(featured)
          [] f = "status" -> Str("For Sale")]

_demo_properties ==
    << Property(DemoKwargs(
           "Dal Lake Waterfront Villa",
           "Elegant lakefront retreat with panoramic Himalayan views and private shikara access.",
           "Boulevard Road, Dal Lake", Srinagar, 12500000, 4, 45, 3800,
           <<"https://images.unsplash.com/photo-1548013146-72479768bada?q=80&w=1600&auto=format&fit=crop",
             "https://images.unsplash.com/photo-1558981806-ec527fa84c39?q=80&w=1600&auto=format&fit=crop">>,
           TRUE))[1],
       Property(DemoKwargs(
           "Gulmarg Alpine Chalet",
           "Cozy ski-in chalet nestled among pines, minutes from gondola.",
           "Near Gulmarg Gondola", Gulmarg, 8500000, 3, 30, 2200,
           <<"https://images.unsplash.com/photo-1519681393784-d120267933ba?q=80&w=1600&auto=format&fit=crop",
             "https://images.unsplash.com/photo-1519682577862-22b62b24e493?q=80&w=1600&auto=format&fit=crop">>,
           TRUE))[1],
       Property(DemoKwargs(
           "Lidder River Retreat",
           "Modern riverside home with sunlit interiors and cedar finishes.",
           "Aru Valley Road", Pahalgam, 4200000, 2, 20, 1400,
           <<"https://images.unsplash.com/photo-1501183638710-841dd1904471?q=80&w=1600&auto=format&fit=crop",
             "https://images.unsplash.com/photo-1521401292936-0a2129a30b22?q=80&w=1600&auto=format&fit=crop">>,
           FALSE))[1] >>

\* ------------------------------------------------------ the document store

Uppers == <<"A", "B", "C", "D", "E", "F", "G", "H", "I", "J", "K", "L", "M",
            "N", "O", "P", "Q", "R", "S", "T", "U", "V", "W", "X", "Y", "Z">>
Lowers == <<"a", "b", "c", "d", "e", "f", "g", "h", "i", "j", "k", "l", "m",
            "n", "o", "p", "q", "r", "s", "t", "u", "v", "w", "x", "y", "z">>

LowerOf == [c \in {Uppers[i] : i \in 1..26} |->
              Lowers[CHOOSE i \in 1..26 : Uppers[i] = c]]

ToLower(c) == IF c \in DOMAIN LowerOf THEN LowerOf[c] ELSE c

\* one pattern atom against one character, with option "i"
AtomMatch(a, c) == IF a = "." THEN c # "\n" ELSE ToLower(a) = ToLower(c)

RECURSIVE MatchHere(_, _)
\* The pattern p matches a prefix-anchored s.  The patterns are those made
\* of literals, ".", a postfix "*" and a final "$"; "$" matches at the end
\* of the text or before a final newline.
MatchHere(p, s) ==
    IF p = <<>> THEN TRUE
    ELSE IF p = <<"$">> THEN s = <<>> \/ s = <<"\n">>
    ELSE IF Len(p) >= 2 /\ p[2] = "*"
         THEN \/ MatchHere(Tail(Tail(p)), s)
              \/ s # <<>> /\ AtomMatch(p[1], s[1]) /\ MatchHere(p, Tail(s))
    ELSE s # <<>> /\ AtomMatch(p[1], s[1]) /\ MatchHere(Tail(p), Tail(s))

\* {"$regex": p, "$options": "i"} against a text; p starts with "^"
RegexMatch(p, s) == MatchHere(Tail(p), s)

\* an opening parenthesis that is never closed does not compile
RegexValid(p) == \A i \in 1..Len(p) : p[i] # "("

\* a stored record against a filter {city: regex?, featured: bool?}
Matches(d, query) ==
    /\ query.city = <<>> \/ (d["city"].t = "str" /\ RegexMatch(query.city[1], d["city"].v))
    /\ query.featured = <<>> \/ (d["featured"].t = "bool" /\ d["featured"].v = query.featured[1])

\* get_documents(collection, filter, limit) with the fault the store raises
\* (<<>>: none).  An empty collection gives an empty sequence and never
\* fails; else a fault or a filter the store rejects raises.
get_documents(coll, query, limit, fault) ==
    IF coll = <<>> THEN [ok |-> TRUE, docs |-> <<>>, err |-> <<>>]
    ELSE IF fault # <<>>
         THEN [ok |-> FALSE, docs |-> <<>>, err |-> fault[1]]
    ELSE IF query.city # <<>> /\ ~RegexValid(query.city[1])
         THEN [ok |-> FALSE, docs |-> <<>>, err |-> <<"r", "e", "g", "e", "x">>]
    ELSE [ok |-> TRUE, err |-> <<>>,
          docs |-> Take(SelectSeq(coll, LAMBDA d : Matches(d, query)), limit)]

\* the textual form of a store-assigned identifier
IdText(n) == [i \in 1..n |-> "1"]

\* create_document(collection, data) with the fault the store raises:
\* the record is appended under a fresh identifier, which is returned
create_document(coll, data, fault) ==
    IF fault # <<>> THEN [ok |-> FALSE, id |-> <<>>, coll |-> coll, err |-> fault[1]]
    ELSE LET id == Len(coll) + 1
         IN [ok |-> TRUE, id |-> IdText(id), err |-> <<>>,
             coll |-> Append(coll, [k \in DOMAIN data \cup {"_id"} |->
                                       IF k = "_id" THEN id ELSE data[k]])]

\* ---------------------------------------------------------- main handlers

\* the storage calls a handler made, in order, each with its outcome: the
\* text of the exception it raised, <<>> when it returned
Call(op, r) == [op |-> op, ok |-> r.ok, err |-> r.err]

\* HTTP responses
Ok(body) == [status |-> 200, body |-> body]
\* an exception that leaves the handler: 500, no records in the body
Unhandled == [status |-> 500, body |-> <<>>]

RECURSIVE SeedFrom_abort(_, _, _, _)
\* the seeding loop with the try around the whole loop: the first insert
\* that raises ends the seeding
SeedFrom_abort(coll, ps, faults, i) ==
    IF i > Len(ps) THEN [coll |-> coll, calls |-> <<>>]
    ELSE LET c == create_document(coll, ps[i], faults[i])
             rest == IF c.ok THEN SeedFrom_abort(c.coll, ps, faults, i + 1)
                     ELSE [coll |-> coll, calls |-> <<>>]
         IN [coll |-> rest.coll,
             calls |-> <<Call("create_document", c)>> \o rest.calls]

RECURSIVE SeedFrom(_, _, _, _)
\* for p in _demo_properties(): try create_document("property", p.dict())
\* except: pass -- from the i-th record on; the collection and the calls
SeedFrom(coll, ps, faults, i) ==
    IF i > Len(ps) THEN [coll |-> coll, calls |-> <<>>]
    ELSE LET c == create_document(coll, ps[i], faults[i])
             rest == SeedFrom(c.coll, ps, faults, i + 1)
         IN [coll |-> rest.coll,
             calls |-> <<Call("create_document", c)>> \o rest.calls]

RECURSIVE Serialize_break(_)
\* the serializing loop with break for continue: the first record that
\* does not validate ends the listing
Serialize_break(docs) ==
    IF docs = <<>> THEN <<>>
    ELSE LET p == Property([k \in PropertyFields |-> docs[1][k]])
         IN IF p = <<>> THEN <<>> ELSE p \o Serialize_break(Tail(docs))

RECURSIVE Serialize(_)
\* for d in docs: try properties.append(Property(**{k: d.get(k) ...}))
\* except: continue
Serialize(docs) ==
    IF docs = <<>> THEN <<>>
    ELSE Property([k \in PropertyFields |-> docs[1][k]]) \o Serialize(Tail(docs))

\* the filter of a listing request: an empty city is dropped like an absent
\* one, a city becomes the anchored pattern ^city$
Query(city, featured) ==
    [city |-> IF city # <<>> /\ city[1] # <<>>
              THEN <<(<<"^">> \o city[1]) \o <<"$">> >>
              ELSE <<>>,
     featured |-> featured]

\* list_properties with a store: fetch, seed when nothing was fetched and
\* fetch again, serialize.  faults = [get1, ins, get2], the faults the store
\* raises at the first fetch, at each seeding insert and at the re-fetch
list_from_store(coll, city, featured, faults) ==
    LET query == Query(city, featured)
        first == get_documents(coll, query, FetchLimit, faults.get1)
    IN IF ~first.ok
       THEN [resp |-> Unhandled, coll |-> coll,
             calls |-> <<Call("get_documents", first)>>]
       ELSE IF first.docs # <<>>
       THEN [resp |-> Ok(Serialize(first.docs)), coll |-> coll,
             calls |-> <<Call("get_documents", first)>>]
       ELSE
         LET seeded == SeedFrom(coll, _demo_properties, faults.ins, 1)
             again == get_documents(seeded.coll, query, FetchLimit, faults.get2)
             log == (<<Call("get_documents", first)>> \o seeded.calls)
                      \o <<Call("get_documents", again)>>
         IN IF ~again.ok
            THEN [resp |-> Unhandled, coll |-> seeded.coll, calls |-> log]
            ELSE [resp |-> Ok(Serialize(again.docs)), coll |-> seeded.coll,
                  calls |-> log]

\* list_properties with the demo fallback filtered by the featured parameter
list_properties_filtering(dbh, coll, city, featured, faults) ==
    IF dbh = "none"
    THEN [resp |-> Ok(SelectSeq(_demo_properties,
                                LAMBDA p : featured = <<>> \/ p["featured"].v = featured[1])),
          coll |-> coll, calls |-> <<>>]
    ELSE list_from_store(coll, city, featured, faults)

\* list_properties(city, featured) over the handle dbh and the property
\* collection coll
list_properties(dbh, coll, city, featured, faults) ==
    IF dbh = "none"
    THEN [resp |-> Ok(_demo_properties), coll |-> coll, calls |-> <<>>]
    ELSE list_from_store(coll, city, featured, faults)

\* featured_properties without its argument
featured_properties_unfiltered(dbh, coll, faults) ==
    list_properties(dbh, coll, <<>>, <<>>, faults)

\* featured_properties()
featured_properties(dbh, coll, faults) ==
    list_properties(dbh, coll, <<>>, <<TRUE>>, faults)

\* create_inquiry answering an insert failure like an absent store
create_inquiry_swallowing(dbh, coll, payload, fault) ==
    LET c == create_document(coll, payload, fault)
    IN IF dbh = "none"
       THEN [resp |-> Ok([status |-> "accepted", persisted |-> FALSE]),
             coll |-> coll, calls |-> <<>>]
       ELSE IF c.ok
       THEN [resp |-> Ok([status |-> "ok", id |-> c.id]), coll |-> c.coll,
             calls |-> <<Call("create_document", c)>>]
       ELSE [resp |-> Ok([status |-> "accepted", persisted |-> FALSE]),
             coll |-> coll, calls |-> <<Call("create_document", c)>>]

\* create_inquiry without the test of the handle: the insert is attempted
\* and fails on the absent store
create_inquiry_unchecked(dbh, coll, payload, fault) ==
    LET c == create_document(coll, payload,
                             IF dbh = "none" THEN << <<"e">> >> ELSE fault)
    IN IF c.ok
       THEN [resp |-> Ok([status |-> "ok", id |-> c.id]), coll |-> c.coll,
             calls |-> <<Call("create_document", c)>>]
       ELSE [resp |-> [status |-> 500, body |-> [detail |-> c.err]],
             coll |-> coll, calls |-> <<Call("create_document", c)>>]

\* create_inquiry(payload) over the handle dbh and the inquiry collection
create_inquiry(dbh, coll, payload, fault) ==
    IF dbh = "none"
    THEN [resp |-> Ok([status |-> "accepted", persisted |-> FALSE]),
          coll |-> coll, calls |-> <<>>]
    ELSE LET c == create_document(coll, payload, fault)
         IN IF c.ok
            THEN [resp |-> Ok([status |-> "ok", id |-> c.id]), coll |-> c.coll,
                  calls |-> <<Call("create_document", c)>>]
            ELSE [resp |-> [status |-> 500, body |-> [detail |-> c.err]],
                  coll |-> coll, calls |-> <<Call("create_document", c)>>]

\* db.list_collection_names(): the collections that hold a record
list_collection_names(props, inqs, rest) ==
    ((IF props # <<>> THEN <<"property">> ELSE <<>>)
       \o (IF inqs # <<>> THEN <<"inquiry">> ELSE <<>>)) \o rest

\* a status string: fixed text followed by the text of an error
Status(text, err) == [text |-> text, err |-> err]

\* os.getenv(name) as a truth value
IsSet(environ, name) == name \in environ

\* test_database without the inner try: a failure of the listing reaches
\* the outer handler
test_database_outer(dbh, environ, names, fault) ==
    LET database == IF dbh = "none" THEN Status("Available but not initialized", <<>>)
                    ELSE IF fault = <<>> THEN Status("Connected & Working", <<>>)
                    ELSE Status("Error: ", Take(fault[1], ErrCut))
    IN Ok([backend |-> "Running",
           database |-> database,
           database_url |-> IF IsSet(environ, "DATABASE_URL") THEN "Set" ELSE "Not Set",
           database_name |-> IF IsSet(environ, "DATABASE_NAME") THEN "Set" ELSE "Not Set",
           connection_status |-> IF dbh = "none" THEN "Not Connected" ELSE "Connected",
           collections |-> IF dbh # "none" /\ fault = <<>>
                           THEN Take(names, CollCut) ELSE <<>>])

\* test_database() over the handle, the environment, the collection names
\* the store holds and the fault listing them raises
test_database(dbh, environ, names, fault) ==
    LET response == [backend |-> "Running",
                     database |-> Status("Not Available", <<>>),
                     database_url |-> "None",
                     database_name |-> "None",
                     connection_status |-> "Not Connected",
                     collections |-> <<>>]
        available == [response EXCEPT
                        !.database = Status("Available", <<>>),
                        !.database_url = IF IsSet(environ, "DATABASE_URL")
                                         THEN "Set" ELSE "Not Set",
                        !.database_name = "Set",
                        !.connection_status = "Connected"]
        probed == IF dbh # "none"
                  THEN IF fault = <<>>
                       THEN [available EXCEPT
                               !.collections = Take(names, CollCut),
                               !.database = Status("Connected & Working", <<>>)]
                       ELSE [available EXCEPT
                               !.database = Status("Connected but Error: ",
                                                   Take(fault[1], ErrCut))]
                  ELSE [response EXCEPT
                          !.database = Status("Available but not initialized", <<>>)]
    IN Ok([probed EXCEPT
             !.database_url = IF IsSet(environ, "DATABASE_URL")
                              THEN "Set" ELSE "Not Set",
             !.database_name = IF IsSet(environ, "DATABASE_NAME")
                               THEN "Set" ELSE "Not Set"])

\* ------------------------------------------------------------ the inputs

Delhi == <<"D", "e", "l", "h", "i">>

\* the city query parameter: absent, empty, a stored city in another
\* letter case, a city no record has, and texts that are regular expressions
CityParams ==
    { <<>>, << <<>> >>, << <<"S", "R", "I", "N", "A", "G", "A", "R">> >>,
      <<Delhi>>, << <<".", "*">> >>, << <<"(">> >> }

FeaturedParams == { <<>>, <<TRUE>>, <<FALSE>> }

\* the text of an exception, n characters long
ErrText(n) == [i \in 1..n |-> "e"]

\* no fault, or a fault with a short text, a text of the truncation length
\* and longer ones
Faults == { <<>>, <<ErrText(1)>> } \cup { <<ErrText(ErrCut + k)>> : k \in 0..MaxErrExtra }

\* the faults of one listing request (the texts are never read): of the
\* seeding inserts none fails, one fails or all fail
ListFaults ==
    [get1 : { <<>>, <<ErrText(1)>> },
     ins : {f \in [1..3 -> { <<>>, <<ErrText(1)>> }] :
               Cardinality({i \in 1..3 : f[i] # <<>>}) \in {0, 1, 3}},
     get2 : { <<>>, <<ErrText(1)>> }]

\* request bodies that passed the Inquiry validation
Payloads ==
    { Inquiry("Asha", "asha@example.com", <<>>, "Is the villa available?", <<>>),
      Inquiry("Ravi", "ravi@example.com", <<"+91 9000000000">>, "Please call me.", <<"1">>) }

\* --------------------------------------------- the store before the start

\* a record of the property collection written before the start
Stored(id, title, city, bedrooms, featured) ==
    [k \in PropertyFields \cup {"_id"} |->
        CASE k = "_id" -> id
          [] k = "title" -> Str(title)
          [] k = "description" -> Str("A listing")
          [] k = "address" -> Str("Main Road")
          [] k = "city" -> city
          [] k = "state" -> Str("Jammu & Kashmir")
          [] k = "country" -> Str("India")
          [] k = "price" -> FloatV(9990000)
          [] k = "bedrooms" -> bedrooms
          [] k = "bathrooms" -> FloatV(15)
          [] k = "area_sqft" -> IntV(900)
          [] k = "images" -> ListV(<<>>)
          [] k = "featured" -> featured
          [] k = "status" -> Str("For Rent")]

\* well-formed records, records that only coerce (int price, whole float
\* bedrooms, 0/1 featured), and records that do not (a field missing, a
\* field of another type); one city ends in a newline
MixedCollection ==
    << Stored(1, "Houseboat", Str(<<"s", "r", "i", "n", "a", "g", "a", "r">>),
              IntV(2), BoolV(FALSE)),
       Stored(2, "Orchard House", Str(Srinagar), NoneV, BoolV(TRUE)),
       [Stored(3, "Beach Flat", Str(<<"G", "o", "a", "\n">>), FloatV(30), IntV(1))
          EXCEPT !["price"] = IntV(700000)],
       [Stored(4, "Hill Cottage", Str(Gulmarg), IntV(1), BoolV(TRUE))
          EXCEPT !["country"] = NoneV],
       [Stored(5, "Studio", Str(Pahalgam), FloatV(15), BoolV(TRUE))
          EXCEPT !["title"] = IntV(5)] >>

\* more well-formed featured records than one fetch returns
BulkCollection ==
    [i \in 1..(FetchLimit + MaxBulk) |->
        Stored(i, "Plot", Str(Gulmarg), IntV(i), BoolV(TRUE))]

\* the databases the process may find: none yet, a small hand-written one,
\* a large one that also holds other collections
Databases ==
    { [property |-> <<>>, others |-> <<>>],
      [property |-> MixedCollection, others |-> <<"user", "product">>],
      [property |-> BulkCollection,
       others |-> <<"user", "product", "agent", "booking", "review", "session",
                    "audit", "media", "tag", "region">>] }

EnvNames == {"DATABASE_URL", "DATABASE_NAME"}

\* ------------------------------------------------------- the state machine

NoRequest == [op |-> "start", city |-> <<>>, featured |-> <<>>, payload |-> <<>>]

NoResponse == [status |-> 0, body |-> <<>>]

Init ==
    /\ db \in {"none", "handle"}
    /\ env \in SUBSET EnvNames
    /\ db = "handle" => env = EnvNames
    /\ \E base \in Databases :
          /\ db = "none" => base.property = <<>>
          /\ property = base.property
          /\ others = base.others
    /\ inquiry = <<>>
    /\ seedRounds = 0
    /\ req = NoRequest
    /\ resp = NoResponse
    /\ calls = <<>>

\* no fault at any storage call of a listing request but the first fetch
Alone(get1) == [get1 |-> get1, ins |-> [i \in 1..3 |-> <<>>], get2 |-> <<>>]

\* the transition of a listing request with the outcome r
Listed(op, city, featured, r) ==
    /\ r.coll # property => seedRounds < MaxSeedRounds
    /\ property' = r.coll
    /\ seedRounds' = IF r.coll # property THEN seedRounds + 1 ELSE seedRounds
    /\ req' = [NoRequest EXCEPT !.op = op, !.city = city, !.featured = featured]
    /\ resp' = r.resp
    /\ calls' = r.calls
    /\ UNCHANGED <<db, env, inquiry, others>>

\* GET /api/properties; the faults of the seeding inserts and of the
\* re-fetch are drawn for the requests that seed
ListProperties ==
    /\ req = NoRequest
    /\ \E city \in CityParams, featured \in FeaturedParams, get1 \in { <<>>, <<ErrText(1)>> } :
        \E r \in {list_properties(db, property, city, featured, Alone(get1))} :
            IF Len(r.calls) <= 1
            THEN Listed("list", city, featured, r)
            ELSE \E faults \in {f \in ListFaults : f.get1 = get1} :
                    \E s \in {list_properties(db, property, city, featured, faults)} :
                        Listed("list", city, featured, s)

\* GET /api/properties/featured
FeaturedProperties ==
    /\ req = NoRequest
    /\ \E get1 \in { <<>>, <<ErrText(1)>> } :
        \E r \in {featured_properties(db, property, Alone(get1))} :
            IF Len(r.calls) <= 1
            THEN Listed("featured", <<>>, <<>>, r)
            ELSE \E faults \in {f \in ListFaults : f.get1 = get1} :
                    \E s \in {featured_properties(db, property, faults)} :
                        Listed("featured", <<>>, <<>>, s)

\* POST /api/inquiries with a valid body
CreateInquiry ==
    /\ req = NoRequest
    /\ \E payload \in Payloads, fault \in Faults :
        LET r == create_inquiry(db, inquiry, payload, fault)
        IN /\ r.coll # inquiry => Len(inquiry) < MaxInquiries
           /\ inquiry' = r.coll
           /\ req' = [NoRequest EXCEPT !.op = "inquiry", !.payload = <<payload>>]
           /\ resp' = r.resp
           /\ calls' = r.calls
           /\ UNCHANGED <<db, env, property, others, seedRounds>>

\* GET /test
TestDatabase ==
    /\ req = NoRequest
    /\ \E fault \in Faults :
        /\ req' = [NoRequest EXCEPT !.op = "test"]
        /\ resp' = test_database(db, env,
                                 list_collection_names(property, inquiry, others), fault)
        /\ calls' = IF db = "none" THEN <<>>
                    ELSE <<Call("list_collection_names",
                                [ok |-> fault = <<>>,
                                 err |-> IF fault = <<>> THEN <<>> ELSE fault[1]])>>
        /\ UNCHANGED <<db, env, property, inquiry, others, seedRounds>>

\* the response is sent and the request ends: the process keeps nothing of it
Respond ==
    /\ req # NoRequest
    /\ req' = NoRequest
    /\ resp' = NoResponse
    /\ calls' = <<>>
    /\ UNCHANGED <<db, env, property, inquiry, others, seedRounds>>

Next ==
    ListProperties \/ FeaturedProperties \/ CreateInquiry \/ TestDatabase \/ Respond

Spec == Init /\ [][Next]_vars

\* ------------------------------------------------------------ properties

Body == resp.body

\* the demo record i as the store holds it under the identifier id
StoredDemo(i, id) ==
    [k \in PropertyFields \cup {"_id"} |-> IF k = "_id" THEN id ELSE _demo_properties[i][k]]

\* the collection a seeding round leaves from an empty one, read off the
\* outcomes of its three inserts (entries 2..4 of the call log)
SeededBy(log) ==
    LET ks == SelectSeq(<<1, 2, 3>>, LAMBDA i : log[i + 1].ok)
    IN [j \in 1..Len(ks) |-> StoredDemo(ks[j], j)]

\* a stored record without its identifier
Projected(d) == [k \in PropertyFields |-> d[k]]

LowerText(s) == [i \in 1..Len(s) |-> ToLower(s[i])]

\* C1: without a storage handle GET /api/properties answers 200 with
\* exactly the three demo properties whatever city and featured are, and
\* makes no storage call and leaves the collections as they were.
C1_DemoFallback ==
    (req.op = "list" /\ db = "none") =>
        /\ resp.status = 200
        /\ Len(Body) = 3
        /\ Body[1]["title"] = Str("Dal Lake Waterfront Villa")
        /\ Body[2]["title"] = Str("Gulmarg Alpine Chalet")
        /\ Body[3]["title"] = Str("Lidder River Retreat")
        /\ Body = _demo_properties
        /\ calls = <<>>
        /\ property = <<>> /\ inquiry = <<>>

C1_Witness ==
    /\ req.op = "list" /\ db = "none"
    /\ req.city = <<Delhi>> /\ req.featured = <<TRUE>>
    /\ Len(Body) = 3

\* C2 as stated: a listing request that finds the store available and the
\* property collection empty leaves the three demo records in it and
\* answers with at most 50 of them.
C2_SeedsAllThree ==
    [][(db = "handle" /\ property = <<>> /\ req'.op = "list") =>
          /\ property' = [i \in 1..3 |-> StoredDemo(i, i)]
          /\ Len(resp'.body) <= FetchLimit
          /\ \A j \in 1..Len(resp'.body) :
                \E i \in 1..3 : resp'.body[j] = _demo_properties[i]]_vars

\* C2 amended: such a request attempts the three inserts, leaves in the
\* collection exactly the demo records whose insert succeeded, in order,
\* and every record of its response is one of those, at most 50.
C2_SeedsWhatSucceeds ==
    [][(db = "handle" /\ property = <<>> /\ req'.op = "list") =>
          /\ Len(calls') = 5
          /\ \A i \in 1..3 : calls'[i + 1].op = "create_document"
          /\ property' = SeededBy(calls')
          /\ Len(resp'.body) <= FetchLimit
          /\ \A j \in 1..Len(resp'.body) :
                \E k \in 1..Len(property') : resp'.body[j] = Projected(property'[k])]_vars

C2_Witness ==
    /\ req.op = "list" /\ db = "handle"
    /\ Len(calls) = 5 /\ calls[2].ok /\ ~calls[3].ok /\ calls[4].ok
    /\ Len(property) = 2
    /\ resp.status = 200 /\ Len(Body) = 2

\* C3: a listing request (either endpoint) that finds the property
\* collection non-empty inserts nothing.
C3_SeedOnlyWhenEmpty ==
    [][(req'.op \in {"list", "featured"} /\ property # <<>>) =>
          property' = property]_vars

\* C4: with a store and a non-empty city c, every record GET
\* /api/properties returns has a city equal to c up to letter case.
C4_CityExact ==
    (req.op = "list" /\ db = "handle" /\ resp.status = 200
        /\ req.city # <<>> /\ req.city[1] # <<>>) =>
        \A i \in 1..Len(Body) :
            LowerText(Body[i]["city"].v) = LowerText(req.city[1])

\* the fault a storage call of the log met
FaultAt(log, k) == IF k <= Len(log) /\ ~log[k].ok THEN <<log[k].err>> ELSE <<>>

\* the store faults a listing request with the call log met
FaultsOf(log) ==
    [get1 |-> FaultAt(log, 1),
     ins |-> [i \in 1..3 |-> FaultAt(log, i + 1)],
     get2 |-> FaultAt(log, 5)]

\* the two featured listings agree from the same state: what one did
\* (response, collection, storage calls), the other does under the same
\* store faults
SameAsFeatured ==
    /\ req'.op = "featured" =>
          \E r \in {list_properties(db, property, <<>>, <<TRUE>>, FaultsOf(calls'))} :
              r.resp = resp' /\ r.coll = property' /\ r.calls = calls'
    /\ (req'.op = "list" /\ req'.city = <<>> /\ req'.featured = <<TRUE>>) =>
          \E r \in {featured_properties(db, property, FaultsOf(calls'))} :
              r.resp = resp' /\ r.coll = property' /\ r.calls = calls'

\* C5 as stated: GET /api/properties with featured=true returns only
\* records whose featured field is true, and does what GET
\* /api/properties/featured does from the same state.
C5_FeaturedOnly ==
    [][/\ (req'.op = "list" /\ req'.featured = <<TRUE>>) =>
             \A i \in 1..Len(resp'.body) : resp'.body[i]["featured"] = BoolV(TRUE)
       /\ SameAsFeatured]_vars

\* C5 amended: with a store, GET /api/properties with featured=true
\* returns only records whose featured field is true; with or without a
\* store it does what GET /api/properties/featured does from the same state.
C5_FeaturedOnlyWithStore ==
    [][/\ (req'.op = "list" /\ req'.featured = <<TRUE>> /\ db = "handle") =>
             \A i \in 1..Len(resp'.body) : resp'.body[i]["featured"] = BoolV(TRUE)
       /\ SameAsFeatured]_vars

C5_Witness ==
    /\ req.op = "featured" /\ db = "handle"
    /\ resp.status = 200 /\ Len(Body) > 0
    /\ \E i \in 1..Len(property) : property[i]["featured"] # BoolV(TRUE)

\* C6: GET /api/properties answers 200 whatever the store does.
C6_NeverAnError == req.op = "list" => resp.status = 200

\* C7: with a store, POST /api/inquiries makes one insert; when it succeeds
\* the answer is 200 {status: "ok", id} with a non-empty id, the inquiry
\* collection has grown by exactly the submitted record and the id is that
\* record's; when it fails the answer is 500 with the text of the error and
\* the collection is as before.
C7_InquiryStoredOrError ==
    [][(req'.op = "inquiry" /\ db = "handle") =>
          /\ Len(calls') = 1 /\ calls'[1].op = "create_document"
          /\ IF calls'[1].ok
             THEN /\ resp'.status = 200
                  /\ DOMAIN resp'.body = {"status", "id"}
                  /\ resp'.body.status = "ok"
                  /\ Len(resp'.body.id) > 0
                  /\ Len(inquiry') = Len(inquiry) + 1
                  /\ SubSeq(inquiry', 1, Len(inquiry)) = inquiry
                  /\ \A k \in DOMAIN req'.payload[1] :
                        inquiry'[Len(inquiry')][k] = req'.payload[1][k]
                  /\ IdText(inquiry'[Len(inquiry')]["_id"]) = resp'.body.id
             ELSE /\ resp'.status = 500
                  /\ resp'.body = [detail |-> calls'[1].err]
                  /\ Len(calls'[1].err) > 0
                  /\ inquiry' = inquiry]_vars

C7_Witness ==
    /\ req.op = "inquiry" /\ db = "handle"
    /\ resp.status = 200 /\ resp.body.status = "ok"
    /\ Len(inquiry) = 1 /\ inquiry[1].name = req.payload[1].name

\* C8: without a storage handle POST /api/inquiries answers 200
\* {status: "accepted", persisted: false}, makes no storage call and leaves
\* the collections as they were.
C8_AcceptedNotPersisted ==
    (req.op = "inquiry" /\ db = "none") =>
        /\ resp = [status |-> 200, body |-> [status |-> "accepted", persisted |-> FALSE]]
        /\ calls = <<>>
        /\ inquiry = <<>> /\ property = <<>>

C8_Witness ==
    /\ req.op = "inquiry" /\ db = "none"
    /\ resp.status = 200 /\ resp.body.status = "accepted"

\* C9: GET /test answers 200 in every storage state; database is the
\* status of that state (no handle, working, listing failed with the first
\* 80 characters of the error), a failed listing changes no other field
\* than database, and collections holds the first 10 names at most.
C9_ProbeNeverRaises ==
    req.op = "test" =>
        /\ resp.status = 200
        /\ Body.backend = "Running"
        /\ Body.database_url = (IF "DATABASE_URL" \in env THEN "Set" ELSE "Not Set")
        /\ Body.database_name = (IF "DATABASE_NAME" \in env THEN "Set" ELSE "Not Set")
        /\ Len(Body.collections) <= CollCut
        /\ IF db = "none"
           THEN /\ Body.database = Status("Available but not initialized", <<>>)
                /\ Body.connection_status = "Not Connected"
                /\ Body.collections = <<>>
                /\ calls = <<>>
           ELSE /\ Body.connection_status = "Connected"
                /\ Len(calls) = 1
                /\ IF calls[1].ok
                   THEN /\ Body.database = Status("Connected & Working", <<>>)
                        /\ Body.collections =
                              Take(list_collection_names(property, inquiry, others), CollCut)
                   ELSE /\ Body.database.text = "Connected but Error: "
                        /\ Body.database.err = Take(calls[1].err, ErrCut)
                        /\ Len(Body.database.err) <= ErrCut
                        /\ Body.collections = <<>>

C9_Witness ==
    /\ req.op = "test" /\ db = "handle"
    /\ ~calls[1].ok /\ Len(calls[1].err) > ErrCut
    /\ Len(Body.database.err) = ErrCut

\* a stored value that the validation of a field of the given type takes:
\* of that type, or an int for a float, a whole float for an int, 0 or 1
\* for a bool
Convertible(type, x) ==
    \/ x.t = type
    \/ type = "float" /\ x.t = "int"
    \/ type = "int" /\ x.t = "float" /\ x.v % 10 = 0
    \/ type = "bool" /\ x.t = "int" /\ x.v \in {0, 1}

\* the records the last fetch of the request in req returned
Fetched ==
    Take(SelectSeq(property, LAMBDA d : Matches(d, Query(req.city, req.featured))),
         FetchLimit)

====
